---- MODULE Spec2Model ----
(***************************************************************************)
(* Model of deployers/helpers/container_helper.py: ContainerServiceHelper. *)
(*                                                                         *)
(* One helper instance, used by one thread.  The remote collaborators      *)
(* (Azure container_services client, SSHTunnelForwarder, the Marathon REST *)
(* endpoint reached with requests) are the environment: every call to one  *)
(* of them draws its outcome from a finite set of outcome classes.         *)
(***************************************************************************)
EXTENDS Integers, Sequences, FiniteSets, TLC

(* ---------------------------------------------------------------- bounds *)
\* standalone reads of the container_service property outside deploy_container
MaxReads == 2
\* calls of deploy_container on the one helper
MaxDeploys == 2
\* GET deployments calls modelled in one run of the (unbounded) polling loop
MaxPolls == 3

(* ------------------------------------------------------ outcome classes *)
None == "None"
NoError == "NoError"

\* ContainerService models a lookup or a creation can return
Clusters == {"svcA", "svcB"}

\* container_ops.get: returns a model, raises CloudError (the resource does
\* not exist / any other ARM error such as authorization or quota), or
\* raises something that is no CloudError (transport failure)
CloudErrors == {"CloudError_NotFound", "CloudError_Other"}
LookupOutcomes == Clusters \cup CloudErrors \cup {"ClientError"}

\* container_ops.create_or_update(...).result(): returns the created model
\* or raises
CreateOutcomes == Clusters \cup {"CloudError_Other"}

\* SSHTunnelForwarder.__enter__: the tunnel is up, or start() raises
TunnelOutcomes == {"ok", "HandlerSSHTunnelForwarderError", "OtherError"}

\* requests.post(...) then response.json(): the status class of the response
\* and whether its body parses as JSON, or a transport failure in post
PostOutcomes == {"2xx_json", "2xx_malformed", "non2xx_json", "non2xx_malformed",
                 "ConnectionError"}

\* requests.get(...).json(): a falsy body (empty list), a truthy body
\* (pending deployments), a body that is no JSON, or a transport failure
GetOutcomes == {"empty", "nonempty", "malformed", "ConnectionError"}

Terminal == {"Done", "Aborted", "TunnelFailed"}

VARIABLES
    self_container_service, \* self._container_service: None or a model
    lookups,                \* container_ops.get calls issued by the instance
    creates,                \* container_ops.create_or_update calls issued
    createFails,            \* create_or_update calls that raised
    reads,                  \* standalone property reads done
    lastRead,               \* what the last property read did
    deploys,                \* deploy_container calls started
    pc,                     \* position of deploy_container
    exc,                    \* exception in flight in deploy_container
    tunnel,                 \* "unopened" | "partial" | "open" | "closed"
    tunnelResult,           \* outcome of SSHTunnelForwarder.__enter__
    opens,                  \* tunnel open attempts in this run
    closes,                 \* tunnel teardown (__exit__) calls in this run
    posts,                  \* POST apps calls in this run
    postResult,             \* outcome of the POST of this run
    getLog,                 \* outcomes of the GET deployments calls, in order
    sleeps,                 \* time.sleep(5) calls in this run
    runLookups,             \* container_ops.get calls in this run
    runCreates,             \* create_or_update calls in this run
    msg,                    \* the manual-retry ssh command was printed
    exitCode,               \* argument of sys.exit, -1 when not called
    error,                  \* exception deploy_container raised to its caller
    name,                   \* self.name
    key_file,               \* content of <HOME>/.ssh/id_rsa.pub
    descriptor,             \* the cluster the caller has in mind (ClusterDescriptor)
    createRequest,          \* parameters of the last create_or_update call
    tunnelSpec,             \* arguments SSHTunnelForwarder was built with in this run
    command,                \* the manual ssh command printed in this run
    docker_tag,             \* self.docker_tag, a sequence of characters
    private_registry_helper, \* argument of this deploy_container call, <<>> for None
    postBody,               \* json body of the POST of this run
    built,                  \* argument and result of the last direct
                            \* marathon_deploy_params call
    shells,                 \* cluster_ssh scopes requested
    sshPc,                  \* "out" | "body": position relative to a cluster_ssh scope
    proc,                   \* ssh subprocess of the last scope: "none" | "running" | "terminated"
    bodyResult,             \* how the body of the last scope ended, "none" before
    shellError              \* exception the last cluster_ssh use raised to the caller

builderVars == <<docker_tag, built>>
shellVars == <<shells, sshPc, proc, bodyResult, shellError>>
configVars == <<name, key_file, descriptor, builderVars, shellVars>>
instanceVars == <<self_container_service, lookups, creates, createFails, reads, lastRead,
                  createRequest, configVars>>
tunnelVars == <<tunnelSpec, command>>
runVars == <<deploys, pc, exc, tunnel, tunnelResult, opens, closes, posts, postResult,
             getLog, sleeps, runLookups, runCreates, msg, exitCode, error, tunnelVars,
             private_registry_helper, postBody>>
vars == <<instanceVars, runVars>>

(* ------------------------------------------------------- configuration *)
\* names a helper is constructed with
Names == {"acs"}

\* public keys the key file can hold
Keys == {"ssh-rsa AAAA", "ssh-rsa BBBB"}

\* names Haikunator().haikunate() can generate
DnsPrefixes == {"calm-sea-1234", "red-fox-5678"}

\* self.resources.group.location
group_location == "westus"

\* cluster descriptors a caller can have in mind: size of the agent VMs and
\* kind of orchestrator
Descriptors == {[vmSize |-> "Standard_D1_v2", orchestratorKind |-> "DCOS"],
                [vmSize |-> "Standard_D2_v2", orchestratorKind |-> "Swarm"]}

\* the key file and the descriptor of the helper whose deploy_container is
\* modelled
DeployKeys == {"ssh-rsa AAAA"}
DeployDescriptors == {[vmSize |-> "Standard_D1_v2", orchestratorKind |-> "DCOS"]}

\* _get_ssh_config(): one ContainerServiceSshPublicKey holding the content
\* of the public key file
get_ssh_config(key) == <<[key_data |-> key]>>

\* mutant: the agent pool gets the master's DNS prefix
ContainerServiceParamsSamePrefix(nm, dns_prefix, key) ==
    [location |-> group_location,
     master_profile |-> [dns_prefix |-> dns_prefix, count |-> 1],
     agent_pool_profiles |-> <<[name |-> nm, count |-> 1,
                                vm_size |-> "Standard_D1_v2",
                                dns_prefix |-> dns_prefix]>>,
     linux_profile |-> [admin_username |-> nm, ssh |-> get_ssh_config(key)],
     orchestrator_profile |-> [orchestrator_type |-> "DCOS"]]

\* the ContainerService built in the except clause of the property
ContainerServiceParams(nm, dns_prefix, key) ==
    [location |-> group_location,
     master_profile |-> [dns_prefix |-> dns_prefix, count |-> 1],
     agent_pool_profiles |-> <<[name |-> nm, count |-> 1,
                                vm_size |-> "Standard_D1_v2",
                                dns_prefix |-> dns_prefix \o "-agent"]>>,
     linux_profile |-> [admin_username |-> nm, ssh |-> get_ssh_config(key)],
     orchestrator_profile |-> [orchestrator_type |-> "DCOS"]]

(* ---------------------------------------------------------- ssh tunnel *)
\* locals of deploy_container
tunnel_remote_port == 80
tunnel_local_port == 8001
tunnel_host == "127.0.0.1"

\* the ssh port of the master that ssh_tunnel_args names
MasterSshPort == 2200

\* get_key_path(): <HOME>/.ssh/id_rsa
get_key_path == "HOME/.ssh/id_rsa"

\* container_service.master_profile.fqdn of a cluster model
master_fqdn(c) == c \o ".cloudapp.azure.com"

\* ssh_tunnel_args(...) for the cluster model c of helper nm
ssh_tunnel_args(c, nm, remote_host, local_host, remote_port, local_port) ==
    [ssh_address_or_host |-> <<master_fqdn(c), MasterSshPort>>,
     ssh_username |-> nm,
     remote_bind_address |-> <<remote_host, remote_port>>,
     local_bind_address |-> <<local_host, local_port>>,
     ssh_pkey |-> get_key_path]

\* what the handler's `ssh -N -L {local_host}:{local_port}:{remote_host}:
\* {remote_port} {addr}` is formatted with, for the cluster model c
manual_command(c) ==
    [local_host |-> tunnel_host,
     local_port |-> tunnel_local_port,
     remote_host |-> tunnel_host,
     remote_port |-> tunnel_remote_port,
     addr |-> master_fqdn(c)]

(* ------------------------------------------------------------ cluster_ssh *)
\* cluster_ssh scopes a caller opens
MaxShells == 2

\* subprocess.Popen(cmd, ...): the process is started, or Popen raises
PopenOutcomes == {"ok", "OSError", "CalledProcessError"}

\* the body of `with helper.cluster_ssh() as proc:` returns or raises
BodyOutcomes == {"normal", "raises"}

(* ------------------------------------------------ marathon_deploy_params *)
\* characters of a docker tag, and the longest tag modelled
Chars == {"/", "a", "b"}
MaxTagLen == 3
Tags == UNION {[1..n -> Chars] : n \in 0..MaxTagLen}

\* the tag of the helper whose deploy_container is modelled
DeployTags == {<<"a", "/", "b">>}

\* private registry helpers: storage.default_share and credentials_file_name
RegistryHelpers ==
    {[storage |-> [default_share |-> sh], credentials_file_name |-> f] :
        sh \in {"data", "share2"}, f \in {"creds.json", "docker.tar.gz"}}

\* values of the private_registry_helper argument: None (<<>>) or a helper
RegistryArgs == {<<>>} \cup {<<h>> : h \in RegistryHelpers}

\* the arguments deploy_container is called with in the model
DeployRegistryArgs ==
    {<<>>, <<[storage |-> [default_share |-> "data"],
              credentials_file_name |-> "creds.json"]>>}

\* str.split(sep): the segments of s between the occurrences of sep
RECURSIVE split(_, _)
split(s, sep) ==
    IF \A i \in 1..Len(s) : s[i] # sep
    THEN <<s>>
    ELSE LET i == CHOOSE k \in 1..Len(s) :
                     s[k] = sep /\ \A j \in 1..(k - 1) : s[j] # sep
         IN <<SubSeq(s, 1, i - 1)>> \o split(SubSeq(s, i + 1, Len(s)), sep)

\* mutant: split('/')[0]
deployment_id_first(tag) == split(tag, "/")[1]

\* deployment_id(): self.docker_tag.split('/')[-1]
deployment_id(tag) ==
    LET parts == split(tag, "/") IN parts[Len(parts)]

\* marathon_deploy_params(private_registry_helper) of a helper with docker
\* tag `tag`; cpus 0.1 is written as the fraction <<1, 10>>
marathon_deploy_params(tag, reg) ==
    LET params ==
          [id |-> deployment_id(tag),
           container |->
              [type |-> "DOCKER",
               docker |-> [image |-> tag,
                           network |-> "BRIDGE",
                           portMappings |-> <<[hostPort |-> 80,
                                               containerPort |-> 80,
                                               protocol |-> "tcp"]>>]],
           acceptedResourceRoles |-> <<"slave_public">>,
           instances |-> 1,
           cpus |-> <<1, 10>>,
           mem |-> 64]
    IN IF reg # <<>>
       THEN params @@ ("uris" :> <<"file:///mnt/" \o reg[1].storage.default_share
                                      \o "/" \o reg[1].credentials_file_name>>)
       ELSE params

(* --------------------------------------------- container_service property *)
\* `except CloudError`: the clause matches every CloudError, whatever its cause
IsCloudError(e) == e \in CloudErrors

\* mutant: the property without `if self._container_service is None`
container_service_nocache(c, lk, cr) ==
    IF lk \in Clusters
    THEN [cache |-> lk, ret |-> lk, raised |-> NoError,
          lookup |-> lk, nLookups |-> 1, nCreates |-> 0, nFails |-> 0]
    ELSE IF IsCloudError(lk)
    THEN IF cr \in Clusters
         THEN [cache |-> cr, ret |-> cr, raised |-> NoError,
               lookup |-> lk, nLookups |-> 1, nCreates |-> 1, nFails |-> 0]
         ELSE [cache |-> None, ret |-> None, raised |-> cr,
               lookup |-> lk, nLookups |-> 1, nCreates |-> 1, nFails |-> 1]
    ELSE [cache |-> None, ret |-> None, raised |-> lk,
          lookup |-> lk, nLookups |-> 1, nCreates |-> 0, nFails |-> 0]

\* mutant: the creation moved out of the except clause, so it is issued
\* after a successful lookup too
container_service_createAlways(c, lk, cr) ==
    IF c # None
    THEN [cache |-> c, ret |-> c, raised |-> NoError,
          lookup |-> "none", nLookups |-> 0, nCreates |-> 0, nFails |-> 0]
    ELSE IF lk \in Clusters \/ IsCloudError(lk)
    THEN IF cr \in Clusters
         THEN [cache |-> cr, ret |-> cr, raised |-> NoError,
               lookup |-> lk, nLookups |-> 1, nCreates |-> 1, nFails |-> 0]
         ELSE [cache |-> None, ret |-> None, raised |-> cr,
               lookup |-> lk, nLookups |-> 1, nCreates |-> 1, nFails |-> 1]
    ELSE [cache |-> None, ret |-> None, raised |-> lk,
          lookup |-> lk, nLookups |-> 1, nCreates |-> 0, nFails |-> 0]

\* mutant: the poller is cached before .result() is awaited, so a creation
\* that raises leaves a value in the cache
container_service_cacheBeforeResult(c, lk, cr) ==
    IF c # None
    THEN [cache |-> c, ret |-> c, raised |-> NoError,
          lookup |-> "none", nLookups |-> 0, nCreates |-> 0, nFails |-> 0]
    ELSE IF lk \in Clusters
    THEN [cache |-> lk, ret |-> lk, raised |-> NoError,
          lookup |-> lk, nLookups |-> 1, nCreates |-> 0, nFails |-> 0]
    ELSE IF IsCloudError(lk)
    THEN IF cr \in Clusters
         THEN [cache |-> cr, ret |-> cr, raised |-> NoError,
               lookup |-> lk, nLookups |-> 1, nCreates |-> 1, nFails |-> 0]
         ELSE [cache |-> "svcA", ret |-> None, raised |-> cr,
               lookup |-> lk, nLookups |-> 1, nCreates |-> 1, nFails |-> 1]
    ELSE [cache |-> None, ret |-> None, raised |-> lk,
          lookup |-> lk, nLookups |-> 1, nCreates |-> 0, nFails |-> 0]

\* The property read with cache c, when the lookup (if issued) answers lk and
\* the creation (if issued) answers cr.
container_service(c, lk, cr) ==
    IF c # None
    THEN [cache |-> c, ret |-> c, raised |-> NoError,
          lookup |-> "none", nLookups |-> 0, nCreates |-> 0, nFails |-> 0]
    ELSE IF lk \in Clusters
    THEN [cache |-> lk, ret |-> lk, raised |-> NoError,
          lookup |-> lk, nLookups |-> 1, nCreates |-> 0, nFails |-> 0]
    ELSE IF IsCloudError(lk)
    THEN IF cr \in Clusters
         THEN [cache |-> cr, ret |-> cr, raised |-> NoError,
               lookup |-> lk, nLookups |-> 1, nCreates |-> 1, nFails |-> 0]
         ELSE [cache |-> None, ret |-> None, raised |-> cr,
               lookup |-> lk, nLookups |-> 1, nCreates |-> 1, nFails |-> 1]
    ELSE [cache |-> None, ret |-> None, raised |-> lk,
          lookup |-> lk, nLookups |-> 1, nCreates |-> 0, nFails |-> 0]

NoRead == [cache |-> None, ret |-> None, raised |-> NoError,
           lookup |-> "none", nLookups |-> 0, nCreates |-> 0, nFails |-> 0]

\* the instance-level effect of one property read r
ApplyRead(r) ==
    /\ self_container_service' = r.cache
    /\ lookups' = lookups + r.nLookups
    /\ creates' = creates + r.nCreates
    /\ createFails' = createFails + r.nFails
    /\ lastRead' = r

\* no creation request was submitted yet
NoRequest == <<>>

\* the creation request of one property read r, whose Haikunator call gave p
RecordRequest(r, p) ==
    createRequest' = IF r.nCreates = 1
                     THEN <<ContainerServiceParams(name, p, key_file)>>
                     ELSE createRequest

InitState ==
    /\ self_container_service = None
    /\ lookups = 0 /\ creates = 0 /\ createFails = 0 /\ reads = 0
    /\ lastRead = NoRead
    /\ deploys = 0
    /\ pc = "Idle"
    /\ exc = NoError
    /\ tunnel = "unopened"
    /\ tunnelResult = "none"
    /\ opens = 0 /\ closes = 0 /\ posts = 0
    /\ postResult = "none"
    /\ getLog = <<>>
    /\ sleeps = 0
    /\ runLookups = 0 /\ runCreates = 0
    /\ msg = FALSE
    /\ exitCode = -1
    /\ error = NoError
    /\ name \in Names
    /\ createRequest = NoRequest
    /\ tunnelSpec = <<>>
    /\ command = <<>>
    /\ private_registry_helper = <<>>
    /\ postBody = <<>>
    /\ built = <<>>
    /\ shells = 0
    /\ sshPc = "out"
    /\ proc = "none"
    /\ bodyResult = "none"
    /\ shellError = NoError

\* the helper whose deploy_container is modelled
Init ==
    /\ InitState
    /\ docker_tag \in DeployTags
    /\ key_file \in DeployKeys
    /\ descriptor \in DeployDescriptors

\* a helper constructed with any tag
ParamsInit ==
    /\ InitState
    /\ docker_tag \in Tags
    /\ key_file \in DeployKeys
    /\ descriptor \in DeployDescriptors

\* a helper on a machine with any key file, for any cluster the caller has
\* in mind
ProvisionInit ==
    /\ InitState
    /\ docker_tag \in DeployTags
    /\ key_file \in Keys
    /\ descriptor \in Descriptors

\* A read of helper.container_service (or of dns_prefix, master_ssh_address,
\* master_ssh_login, which read it) by the caller, outside deploy_container.
ReadContainerService ==
    /\ pc \in {"Idle", "Done", "Aborted"}
    /\ reads < MaxReads
    /\ \E lk \in LookupOutcomes, cr \in CreateOutcomes, p \in DnsPrefixes :
          LET r == container_service(self_container_service, lk, cr) IN
          /\ ApplyRead(r)
          /\ RecordRequest(r, p)
    /\ reads' = reads + 1
    /\ UNCHANGED <<runVars, configVars>>

(* --------------------------------------------------------- deploy_container *)
\* The caller calls deploy_container (again): a fresh activation.
DeployCall ==
    /\ pc \in {"Idle", "Done", "Aborted"}
    /\ deploys < MaxDeploys
    /\ deploys' = deploys + 1
    /\ pc' = "Provisioning"
    /\ exc' = NoError
    /\ tunnel' = "unopened"
    /\ tunnelResult' = "none"
    /\ opens' = 0 /\ closes' = 0 /\ posts' = 0
    /\ postResult' = "none"
    /\ getLog' = <<>>
    /\ sleeps' = 0
    /\ runLookups' = 0 /\ runCreates' = 0
    /\ msg' = FALSE
    /\ exitCode' = -1
    /\ error' = NoError
    /\ tunnelSpec' = <<>>
    /\ command' = <<>>
    /\ private_registry_helper' \in DeployRegistryArgs
    /\ postBody' = <<>>
    /\ UNCHANGED instanceVars

\* self.ssh_tunnel_args(...): master_ssh_address() reads container_service.
\* It runs inside the try, before the with statement is entered.
SshTunnelArgs ==
    /\ pc = "Provisioning"
    /\ \E lk \in LookupOutcomes, cr \in CreateOutcomes, p \in DnsPrefixes :
          LET r == container_service(self_container_service, lk, cr) IN
          /\ ApplyRead(r)
          /\ RecordRequest(r, p)
          /\ runLookups' = runLookups + r.nLookups
          /\ runCreates' = runCreates + r.nCreates
          /\ exc' = r.raised
          /\ pc' = IF r.raised = NoError THEN "TunnelOpening" ELSE "Except"
          /\ tunnelSpec' = IF r.raised = NoError
                           THEN <<ssh_tunnel_args(r.ret, name, tunnel_host, tunnel_host,
                                                  tunnel_remote_port, tunnel_local_port)>>
                           ELSE tunnelSpec
    /\ UNCHANGED <<command, private_registry_helper, postBody, configVars, reads, deploys, tunnel, tunnelResult, opens, closes, posts,
                   postResult, getLog, sleeps, msg, exitCode, error>>

\* mutant: a failure to start the tunnel is swallowed and the body runs
TunnelEnterIgnoreFailure ==
    /\ pc = "TunnelOpening"
    /\ \E o \in TunnelOutcomes :
          /\ tunnelResult' = o
          /\ tunnel' = IF o = "ok" THEN "open" ELSE "partial"
    /\ exc' = NoError
    /\ pc' = "Submitting"
    /\ opens' = opens + 1
    /\ UNCHANGED <<instanceVars, tunnelVars, private_registry_helper, postBody, deploys, closes, posts, postResult, getLog,
                   sleeps, runLookups, runCreates, msg, exitCode, error>>

\* with SSHTunnelForwarder(...) as tunnel: __enter__ starts the tunnel.  When
\* __enter__ raises, the with statement does not run __exit__.
TunnelEnter ==
    /\ pc = "TunnelOpening"
    /\ \E o \in TunnelOutcomes :
          /\ tunnelResult' = o
          /\ tunnel' = IF o = "ok" THEN "open" ELSE "partial"
          /\ exc' = IF o = "ok" THEN NoError ELSE o
          /\ pc' = IF o = "ok" THEN "Submitting" ELSE "Except"
    /\ opens' = opens + 1
    /\ UNCHANGED <<instanceVars, tunnelVars, private_registry_helper, postBody, deploys, closes, posts, postResult, getLog,
                   sleeps, runLookups, runCreates, msg, exitCode, error>>

\* requests.post(base_url + 'apps', json=...) and response.json().  The
\* status of the response is not inspected; only a transport failure or a
\* body that is no JSON raises.
PostRaises(o) ==
    IF o = "ConnectionError" THEN "ConnectionError"
    ELSE IF o \in {"2xx_malformed", "non2xx_malformed"} THEN "ValueError"
    ELSE NoError

PostApps ==
    /\ pc = "Submitting"
    /\ \E o \in PostOutcomes :
          /\ postResult' = o
          /\ exc' = PostRaises(o)
          /\ pc' = IF PostRaises(o) = NoError THEN "Polling" ELSE "Exiting"
    /\ postBody' = <<marathon_deploy_params(docker_tag, private_registry_helper)>>
    /\ posts' = posts + 1
    /\ UNCHANGED <<instanceVars, tunnelVars, private_registry_helper, deploys, tunnel, tunnelResult, opens, closes,
                   getLog, sleeps, runLookups, runCreates, msg, exitCode, error>>

\* one iteration of `while True`: requests.get(base_url + 'deployments').json()
GetRaises(o) ==
    IF o = "ConnectionError" THEN "ConnectionError"
    ELSE IF o = "malformed" THEN "ValueError"
    ELSE NoError

\* mutant: the truthiness test of the loop inverted
AfterGetInverted(o) ==
    IF GetRaises(o) # NoError THEN "Exiting"
    ELSE IF o = "nonempty" THEN "Exiting"
    ELSE "Sleeping"

\* where the loop goes after a GET that answered o
AfterGet(o) ==
    IF GetRaises(o) # NoError THEN "Exiting"
    ELSE IF o = "nonempty" THEN "Sleeping"
    ELSE "Exiting"

GetDeployments ==
    /\ pc = "Polling"
    /\ Len(getLog) < MaxPolls
    /\ \E o \in GetOutcomes :
          /\ getLog' = Append(getLog, o)
          /\ exc' = GetRaises(o)
          /\ pc' = AfterGet(o)
    /\ UNCHANGED <<instanceVars, tunnelVars, private_registry_helper, postBody, deploys, tunnel, tunnelResult, opens, closes,
                   posts, postResult, sleeps, runLookups, runCreates, msg,
                   exitCode, error>>

\* mutant: the loop gives up after its first sleep (a retry limit of one)
SleepGiveUp ==
    /\ pc = "Sleeping"
    /\ sleeps' = sleeps + 1
    /\ pc' = "Exiting"
    /\ UNCHANGED <<instanceVars, tunnelVars, private_registry_helper, postBody, deploys, exc, tunnel, tunnelResult, opens,
                   closes, posts, postResult, getLog, runLookups, runCreates,
                   msg, exitCode, error>>

\* time.sleep(5) after a truthy response, then the next iteration
Sleep ==
    /\ pc = "Sleeping"
    /\ sleeps' = sleeps + 1
    /\ pc' = "Polling"
    /\ UNCHANGED <<instanceVars, tunnelVars, private_registry_helper, postBody, deploys, exc, tunnel, tunnelResult, opens,
                   closes, posts, postResult, getLog, runLookups, runCreates,
                   msg, exitCode, error>>

\* an external interrupt (KeyboardInterrupt) while the body of the with
\* statement runs
Interrupt ==
    /\ pc \in {"Submitting", "Polling", "Sleeping"}
    /\ exc' = "KeyboardInterrupt"
    /\ pc' = "Exiting"
    /\ UNCHANGED <<instanceVars, tunnelVars, private_registry_helper, postBody, deploys, tunnel, tunnelResult, opens, closes,
                   posts, postResult, getLog, sleeps, runLookups, runCreates,
                   msg, exitCode, error>>

\* mutant: tunnel.stop() at the end of the body instead of a with statement,
\* so an exception skips it
TunnelExitNoFinally ==
    /\ pc = "Exiting"
    /\ tunnel' = IF exc = NoError THEN "closed" ELSE tunnel
    /\ closes' = IF exc = NoError THEN closes + 1 ELSE closes
    /\ pc' = IF exc = NoError THEN "Done" ELSE "Except"
    /\ UNCHANGED <<instanceVars, tunnelVars, private_registry_helper, postBody, deploys, exc, tunnelResult, opens, posts,
                   postResult, getLog, sleeps, runLookups, runCreates, msg,
                   exitCode, error>>

\* mutant: the tunnel is started by hand and never stopped
TunnelExitNoClose ==
    /\ pc = "Exiting"
    /\ pc' = IF exc = NoError THEN "Done" ELSE "Except"
    /\ UNCHANGED <<instanceVars, tunnelVars, private_registry_helper, postBody, deploys, exc, tunnel, tunnelResult, opens,
                   closes, posts, postResult, getLog, sleeps, runLookups,
                   runCreates, msg, exitCode, error>>

\* leaving the with statement, by break or by an exception: __exit__ runs
TunnelExit ==
    /\ pc = "Exiting"
    /\ tunnel' = "closed"
    /\ closes' = closes + 1
    /\ pc' = IF exc = NoError THEN "Done" ELSE "Except"
    /\ UNCHANGED <<instanceVars, tunnelVars, private_registry_helper, postBody, deploys, exc, tunnelResult, opens, posts,
                   postResult, getLog, sleeps, runLookups, runCreates, msg,
                   exitCode, error>>

\* mutant: `except Exception`
HandlerMatchesAny(e) == e # NoError

\* mutant: the clause names another exception class
HandlerMatchesWrongClass(e) == e = "OtherError"

\* `except HandlerSSHTunnelForwarderError`: the clause the exception in
\* flight is matched against
HandlerMatches(e) == e = "HandlerSSHTunnelForwarderError"

\* the handler of the except clause is about to run
HandlerRuns == pc = "Except" /\ HandlerMatches(exc)

\* The except clause.  A matching exception runs the handler: it formats the
\* manual ssh command, which reads master_ssh_address() and so the
\* container_service property, prints it and calls sys.exit(1).  Any other
\* exception leaves deploy_container.
ExceptClause ==
    /\ pc = "Except"
    /\ IF HandlerMatches(exc)
       THEN \E lk \in LookupOutcomes, cr \in CreateOutcomes, p \in DnsPrefixes :
               LET r == container_service(self_container_service, lk, cr) IN
               /\ ApplyRead(r)
               /\ RecordRequest(r, p)
               /\ UNCHANGED configVars
               /\ runLookups' = runLookups + r.nLookups
               /\ runCreates' = runCreates + r.nCreates
               /\ msg' = (r.raised = NoError)
               /\ exitCode' = IF r.raised = NoError THEN 1 ELSE exitCode
               /\ pc' = IF r.raised = NoError THEN "TunnelFailed" ELSE "Aborted"
               /\ error' = r.raised
               /\ command' = IF r.raised = NoError
                              THEN <<manual_command(r.ret)>>
                              ELSE command
       ELSE /\ pc' = "Aborted"
            /\ error' = exc
            /\ UNCHANGED <<instanceVars, runLookups, runCreates, msg, exitCode, command>>
    /\ UNCHANGED <<tunnelSpec, private_registry_helper, postBody, reads, deploys, exc, tunnel, tunnelResult, opens, closes,
                   posts, postResult, getLog, sleeps>>

(* ------------------------------------------------------------ cluster_ssh *)
\* Entering `with helper.cluster_ssh()`: the generator runs to its yield.
\* master_ssh_login() reads the container_service property, then Popen
\* starts ssh.  An exception of either leaves the generator (the except
\* clause prints and re-raises a CalledProcessError), so no scope is entered.
ClusterSshEnter ==
    /\ pc \in {"Idle", "Done", "Aborted"}
    /\ sshPc = "out"
    /\ shells < MaxShells
    /\ shells' = shells + 1
    /\ bodyResult' = "none"
    /\ \E lk \in LookupOutcomes, cr \in CreateOutcomes, p \in DnsPrefixes,
          po \in PopenOutcomes :
          LET r == container_service(self_container_service, lk, cr) IN
          /\ ApplyRead(r)
          /\ RecordRequest(r, p)
          /\ IF r.raised # NoError
             THEN /\ shellError' = r.raised
                  /\ sshPc' = "out"
                  /\ proc' = "none"
             ELSE IF po # "ok"
             THEN /\ shellError' = po
                  /\ sshPc' = "out"
                  /\ proc' = "none"
             ELSE /\ shellError' = NoError
                  /\ sshPc' = "body"
                  /\ proc' = "running"
    /\ UNCHANGED <<reads, name, key_file, descriptor, builderVars, runVars>>

\* Leaving the scope.  When the body returns, the generator resumes after the
\* yield and calls proc.terminate().  When the body raises, the exception is
\* thrown into the generator at the yield, which no try statement encloses:
\* it leaves the generator and proc.terminate() is not reached.
ClusterSshExit ==
    /\ sshPc = "body"
    /\ \E b \in BodyOutcomes :
          /\ bodyResult' = b
          /\ proc' = IF b = "normal" THEN "terminated" ELSE proc
          /\ shellError' = IF b = "normal" THEN NoError ELSE "BodyError"
    /\ sshPc' = "out"
    /\ UNCHANGED <<self_container_service, lookups, creates, createFails, reads,
                   lastRead, createRequest, name, key_file, descriptor,
                   builderVars, shells, runVars>>

\* a direct call of marathon_deploy_params by the caller
MarathonDeployParams ==
    /\ \E reg \in RegistryArgs :
          built' = <<[arg |-> reg, result |-> marathon_deploy_params(docker_tag, reg)]>>
    /\ UNCHANGED <<self_container_service, lookups, creates, createFails, reads,
                   lastRead, createRequest, name, key_file, descriptor, docker_tag,
                   shellVars, runVars>>

Next ==
    \/ ReadContainerService
    \/ DeployCall
    \/ SshTunnelArgs
    \/ TunnelEnter
    \/ PostApps
    \/ GetDeployments
    \/ Sleep
    \/ Interrupt
    \/ TunnelExit
    \/ ExceptClause

Spec == Init /\ [][Next]_vars

\* The helper runs in one thread: a step of deploy_container that needs no
\* answer from outside (leaving the with statement, the except clause, the
\* end of a sleep) is taken once it is reached.
FairSpec ==
    Spec /\ WF_vars(TunnelExit) /\ WF_vars(ExceptClause) /\ WF_vars(Sleep)

\* the helper used only to read its container_service property
ProvisionNext == ReadContainerService

ProvisionSpec == ProvisionInit /\ [][ProvisionNext]_vars

\* the helper used for its interactive shell and its property
ShellNext ==
    \/ ReadContainerService
    \/ ClusterSshEnter
    \/ ClusterSshExit

ShellSpec == Init /\ [][ShellNext]_vars

\* the helper used only to build deployment requests
ParamsNext == MarathonDeployParams

ParamsSpec == ParamsInit /\ [][ParamsNext]_vars

TypeOK ==
    /\ self_container_service \in Clusters \cup {None}
    /\ pc \in {"Idle", "Provisioning", "TunnelOpening", "Submitting", "Polling",
               "Sleeping", "Exiting", "Except"} \cup Terminal
    /\ tunnel \in {"unopened", "partial", "open", "closed"}
    /\ Len(getLog) <= MaxPolls

(* ------------------------------------------------------------ properties *)
HasEmpty(log) == \E i \in 1..Len(log) : log[i] = "empty"
FirstEmpty(log) == CHOOSE i \in 1..Len(log) :
                      /\ log[i] = "empty"
                      /\ \A j \in 1..(i - 1) : log[j] # "empty"

\* C1 (as stated): whatever the remote calls return or raise, one instance
\* issues at most one create_or_update call in total.
C1_AtMostOneCreate == creates <= 1

\* C1 (amended): one instance issues at most one create_or_update call that
\* does not raise; every further mutating call follows one that raised, so
\* the calls issued exceed the calls that raised by at most one.
C1_AtMostOneCreateBeyondFailures == creates <= createFails + 1

C1_Witness ==
    /\ creates = 2 /\ createFails = 1
    /\ self_container_service \in Clusters
    /\ lastRead.nCreates = 1

\* C2: when the lookup of a property read fails with an error other than
\* not-found, that read issues no creation request, leaves the cache unset
\* and raises that same error.
C2_NoCreateOnOtherLookupError ==
    lastRead.lookup \in {"CloudError_Other", "ClientError"} =>
        /\ lastRead.nCreates = 0
        /\ self_container_service = None
        /\ lastRead.raised = lastRead.lookup

\* C3: once deploy_container has left the with statement (it is in its
\* except clause, has returned, has raised or has exited the process), the
\* tunnel is not open; a tunnel that was opened has been closed, once.
C3_TunnelClosedAfterScope ==
    pc \in Terminal \cup {"Except"} =>
        /\ tunnel # "open"
        /\ tunnelResult = "ok" => (tunnel = "closed" /\ closes = 1)

C3_Witness ==
    /\ pc = "Aborted" /\ error = "KeyboardInterrupt"
    /\ tunnelResult = "ok" /\ tunnel = "closed"
    /\ Len(getLog) >= 1

\* C4: when entering the tunnel scope raises, the tunnel's teardown has been
\* invoked exactly once when deploy_container terminates.
C4_TeardownOnceOnFailedEnter ==
    (pc \in Terminal /\ tunnelResult \in TunnelOutcomes \ {"ok"}) => closes = 1

\* C5: when opening the tunnel raises HandlerSSHTunnelForwarderError, the
\* run issues no POST and no GET, and it terminates only by sys.exit(1)
\* after the manual-retry command was printed.
C5_TunnelFailedOutcome ==
    tunnelResult = "HandlerSSHTunnelForwarderError" =>
        /\ posts = 0
        /\ Len(getLog) = 0
        /\ pc \in {"Except", "TunnelFailed"}
        /\ pc = "TunnelFailed" => (msg /\ exitCode = 1)

C5_Witness ==
    /\ pc = "TunnelFailed" /\ msg /\ exitCode = 1
    /\ tunnelResult = "HandlerSSHTunnelForwarderError"

\* C6: once the POST has been issued, the run never ends in TunnelFailed and
\* never prints the tunnel remediation; an error raised from then on is what
\* deploy_container raises to its caller.
C6_NoTunnelFailedAfterPost ==
    posts > 0 =>
        /\ pc # "TunnelFailed"
        /\ ~msg
        /\ exitCode = -1
        /\ (pc \in Terminal /\ exc # NoError) => (pc = "Aborted" /\ error = exc)

C6_Witness ==
    /\ posts = 1 /\ pc = "Aborted"
    /\ error = "ConnectionError" /\ postResult = "ConnectionError"

\* C7: when the POST answers non-2xx or fails in transport, the run issues
\* no GET, no second POST, and does not return Succeeded.
C7_PostFailureAborts ==
    postResult \in {"non2xx_json", "non2xx_malformed", "ConnectionError"} =>
        /\ Len(getLog) = 0
        /\ posts = 1
        /\ pc # "Done"

\* C8: when the first empty GET response is the k-th, exactly k GETs were
\* issued, the loop slept exactly k-1 times, and the run is leaving the
\* scope without an exception or has returned.
C8_PollingCounts ==
    HasEmpty(getLog) =>
        LET k == FirstEmpty(getLog) IN
        /\ Len(getLog) = k
        /\ \A j \in 1..(k - 1) : getLog[j] = "nonempty"
        /\ sleeps = k - 1
        /\ pc \in {"Exiting", "Done"}
        /\ exc = NoError /\ error = NoError

C8_Witness ==
    /\ pc = "Done"
    /\ getLog = <<"nonempty", "nonempty", "empty">>
    /\ sleeps = 2

\* C9: an empty GET response in Polling leads to Done with the tunnel
\* closed; and the run leaves Polling only on an empty response or on a
\* raised exception, never by a retry limit or timeout of its own.
LeavesPollingOnlyWhenToldTo ==
    (pc \in {"Polling", "Sleeping"} /\ pc' \notin {"Polling", "Sleeping"}) =>
        \/ exc' # NoError
        \/ (getLog' # <<>> /\ getLog'[Len(getLog')] = "empty")

C9_PollingTermination ==
    /\ (pc = "Exiting" /\ exc = NoError) ~> (pc = "Done" /\ tunnel = "closed")
    /\ [][LeavesPollingOnlyWhenToldTo]_vars

C9_Witness ==
    /\ pc = "Done" /\ tunnel = "closed"
    /\ Len(getLog) = MaxPolls /\ sleeps = MaxPolls - 1

\* C10: a first run on a fresh helper whose lookup signalled not-found and
\* in which no call failed terminates only as Done, with exactly one create
\* call, one tunnel open, one tunnel close, one POST, and polling that ended
\* at the first empty GET response.
FreshRunNoFailure ==
    /\ deploys = 1 /\ reads = 0
    /\ lastRead.lookup = "CloudError_NotFound"
    /\ createFails = 0
    /\ tunnelResult \in {"none", "ok"}
    /\ postResult \in {"none", "2xx_json"}
    /\ exc = NoError

C10_EndToEnd ==
    FreshRunNoFailure =>
        /\ creates = 1 /\ runCreates = 1
        /\ posts <= 1 /\ opens <= 1
        /\ HasEmpty(getLog) => Len(getLog) = FirstEmpty(getLog)
        /\ pc \in Terminal =>
              /\ pc = "Done" /\ error = NoError
              /\ opens = 1 /\ closes = 1 /\ tunnel = "closed"
              /\ posts = 1
              /\ HasEmpty(getLog)

C10_Witness ==
    /\ FreshRunNoFailure /\ pc = "Done"
    /\ getLog = <<"nonempty", "empty">>

\* a step in which the container_service property is read
PropertyRead ==
    reads' = reads + 1 \/ shells' = shells + 1 \/ pc = "Provisioning" \/ HandlerRuns

\* C14: once the cache holds a model, no step replaces or resets it or issues
\* a lookup or a creation, and every read from then on returns that model.
CacheIsFinal ==
    self_container_service # None =>
        /\ self_container_service' = self_container_service
        /\ lookups' = lookups /\ creates' = creates
        /\ PropertyRead =>
              /\ lastRead'.ret = self_container_service
              /\ lastRead'.raised = NoError
              /\ lastRead'.nLookups = 0 /\ lastRead'.nCreates = 0

C14_CachedReadsArePure == [][CacheIsFinal]_vars

C14_Witness ==
    /\ reads = 2 /\ deploys = 0
    /\ lookups = 1
    /\ lastRead.lookup = "none" /\ lastRead.ret = self_container_service
    /\ self_container_service \in Clusters

\* C15: a read whose lookup found an existing cluster issued no creation
\* request, returned the looked-up cluster and cached exactly it.
C15_FoundIsReturnedAndCached ==
    lastRead.lookup \in Clusters =>
        /\ lastRead.nCreates = 0
        /\ lastRead.raised = NoError
        /\ lastRead.ret = lastRead.lookup
        /\ self_container_service = lastRead.lookup

C15_Witness ==
    /\ lastRead.lookup = "svcB" /\ self_container_service = "svcB"
    /\ creates = 0 /\ lookups = 1

\* C16: one run of deploy_container issues at most one lookup, one creation,
\* one tunnel open attempt and one POST, whatever fails.
C16_NothingButPollingRepeats ==
    /\ runLookups <= 1
    /\ runCreates <= 1
    /\ opens <= 1
    /\ posts <= 1

C16_Witness ==
    /\ pc = "TunnelFailed"
    /\ runLookups = 1 /\ runCreates = 1 /\ opens = 1 /\ posts = 0

\* C19: a read whose creation raised raises that error and leaves the cache
\* unset, and the next read issues the remote lookup again.
CreateFailureState ==
    lastRead.nFails = 1 =>
        /\ lastRead.raised \in CreateOutcomes \ Clusters
        /\ lastRead.ret = None
        /\ self_container_service = None

RereadLooksUp ==
    (lastRead.nFails = 1 /\ PropertyRead) =>
        /\ lookups' = lookups + 1
        /\ lastRead'.nLookups = 1

C19_CreateFailureLeavesCacheUnset ==
    /\ []CreateFailureState
    /\ [][RereadLooksUp]_vars

C19_Witness ==
    /\ lastRead.nFails = 1 /\ createFails = 2
    /\ self_container_service = None
    /\ lookups = 2

\* C13: in a run of deploy_container the lookup and the creation are issued
\* only before the tunnel open attempt, which finds the cluster cached; the
\* POST is issued only with the tunnel open; a GET is issued only with the
\* tunnel open and after the POST answered; the tunnel is closed from the
\* open state and no POST or GET follows the close.
CallOrder ==
    /\ (pc \notin {"Idle", "Done", "Aborted"}
          /\ (lookups' > lookups \/ creates' > creates)) =>
          (opens = 0 /\ opens' = 0)
    /\ opens' > opens =>
          (self_container_service # None /\ posts = 0 /\ getLog = <<>>)
    /\ posts' > posts => (tunnel = "open" /\ opens = 1 /\ getLog = <<>>)
    /\ Len(getLog') > Len(getLog) =>
          /\ tunnel = "open"
          /\ posts = 1 /\ posts' = 1
          /\ postResult \in PostOutcomes /\ PostRaises(postResult) = NoError
    /\ closes' > closes => (tunnel = "open" /\ tunnel' = "closed")
    /\ (closes > 0 /\ deploys' = deploys) =>
          (getLog' = getLog /\ posts' = posts /\ tunnel' = "closed")

C13_CallOrder == [][CallOrder]_vars

C13_Witness ==
    /\ pc = "Done" /\ closes = 1 /\ tunnel = "closed"
    /\ Len(getLog) = 2 /\ posts = 1 /\ runCreates = 1 /\ runLookups = 1

C17_CommandMatchesTunnelSpec ==
    msg =>
        LET c == command[1]
            s == tunnelSpec[1] IN
        /\ c.local_host = s.local_bind_address[1]
        /\ c.local_port = s.local_bind_address[2]
        /\ c.remote_host = s.remote_bind_address[1]
        /\ c.remote_port = s.remote_bind_address[2]
        /\ c.addr = s.ssh_address_or_host[1]
        /\ "port" \in DOMAIN c /\ c.port = s.ssh_address_or_host[2]
        /\ "user" \in DOMAIN c /\ c.user = s.ssh_username
        /\ "key" \in DOMAIN c /\ c.key = s.ssh_pkey

\* the part of a tag after its last '/', the whole tag when it has none
AfterLastSlash(tag) ==
    IF \A i \in 1..Len(tag) : tag[i] # "/"
    THEN tag
    ELSE LET i == CHOOSE k \in 1..Len(tag) :
                     tag[k] = "/" /\ \A j \in (k + 1)..Len(tag) : tag[j] # "/"
         IN SubSeq(tag, i + 1, Len(tag))

\* C12: the built request has as id the part of the image reference after
\* its last '/', as image the image reference, and a file-URI field exactly
\* when a registry reference is given, then holding the one URI
\* file:///mnt/<defaultShare>/<credentialsFileName>.
C12_BuildMatchesReference ==
    built # <<>> =>
        LET a == built[1].arg
            r == built[1].result IN
        /\ r.id = AfterLastSlash(docker_tag)
        /\ r.container.docker.image = docker_tag
        /\ ("uris" \in DOMAIN r) <=> (a # <<>>)
        /\ a # <<>> =>
              r.uris = <<"file:///mnt/" \o a[1].storage.default_share \o "/"
                            \o a[1].credentials_file_name>>

C12_Witness ==
    /\ built # <<>>
    /\ docker_tag = <<"a", "/", "b">>
    /\ built[1].result.id = <<"b">>
    /\ built[1].arg # <<>>
    /\ built[1].result.uris = <<"file:///mnt/data/creds.json">>

\* C18: once a cluster_ssh scope whose subprocess was started has been
\* left, by a body that returned or by a body that raised, the subprocess
\* has been sent the termination signal.
C18_ShellTerminatedOnEveryExit ==
    (sshPc = "out" /\ bodyResult \in BodyOutcomes) => proc = "terminated"
====
